---- MODULE Spec2Model ----
(***************************************************************************)
(* The connection lifecycle of the intrinio realtime client: the caller's  *)
(* Connect / Disconnect / Join / Leave / LeaveAll, and the three           *)
(* goroutines of a connection (startReceiver, startSender, heartbeat),     *)
(* with Go's channel semantics (unbuffered hand-off on q, close of a       *)
(* closed channel and send on a closed channel panic, receive on a closed  *)
(* channel succeeds at once, nil pointer dereference panics).              *)
(*                                                                         *)
(* The repository holds two revisions of the client: src/client.go and     *)
(* src/unnamed/part_001.  Both are modelled; the variable "variant" says   *)
(* which one a behaviour runs.  Where the two agree one definition serves  *)
(* both; where they differ the definition branches on the variant.         *)
(***************************************************************************)
EXTENDS Naturals, Integers, Sequences, FiniteSets, TLC

\* ------------------------------------------------------------------ bounds
\* Over a behaviour: the sockets dialled (and, in part_001, the calls of
\* Connect, each of which makes new channels), the heartbeat ticks, and the
\* sockets that fail from the far side. The other public methods are called
\* without a bound.
MaxConnect == 2
MaxTick == 1
MaxFail == 1

\* ------------------------------------------------------------ the revisions
ClientGo == "client.go"
PartOne == "part_001"

\* ---------------------------------------------------------------- providers
IEX == "iex"
QUODD == "quodd"
Unknown == "other"
Providers == {IEX, QUODD, Unknown}

\* The clients New is called for: every provider on client.go; on part_001,
\* whose behaviours are many more, IEX and the provider that is not known.
Clients == ({ClientGo} \X Providers) \cup ({PartOne} \X {IEX, Unknown})

cQUODDRealtimeTokenURL == "https://api.intrinio.com/token?type=QUODD"
cIEXRealtimeTokenURL == "https://realtime.intrinio.com/auth"
cQUODDWebsocketURL == "wss://www5.quodd.com/websocket/webStreamer/intrinio"
cIEXWebsocketURL == "wss://realtime.intrinio.com/socket/websocket"

\* What a function that panics yields instead of a value.
Panics == "panic: A value that does not exist was specified."

makeAuthURL(p) ==
    CASE p = IEX -> cIEXRealtimeTokenURL
      [] p = QUODD -> cQUODDRealtimeTokenURL
      [] OTHER -> Panics

makeSoketURL(p, token) ==
    CASE p = IEX -> <<cIEXWebsocketURL, "?vsn=1.0.0&token=", token>>
      [] p = QUODD -> <<cQUODDWebsocketURL, "/", token>>
      [] OTHER -> Panics

\* ------------------------------------------------------------------ strings
\* A string is a sequence of pieces; " " is a piece of white space.
Space == " "

RECURSIVE TrimLeft(_)
TrimLeft(s) ==
    IF s # <<>> /\ Head(s) = Space THEN TrimLeft(Tail(s)) ELSE s

RECURSIVE TrimRight(_)
TrimRight(s) ==
    IF s # <<>> /\ s[Len(s)] = Space THEN TrimRight(SubSeq(s, 1, Len(s) - 1)) ELSE s

\* strings.TrimSpace
TrimSpace(s) == TrimRight(TrimLeft(s))

\* The channel names the caller passes to Join and Leave.
RawChannels == {<<"AAPL">>, <<"MSFT">>, <<" ", "AAPL", " ">>}
ChannelArgs == SUBSET RawChannels

\* ----------------------------------------------------------------- messages
parseTopic(channel) ==
    IF channel = <<"$lobby">> THEN <<"iex:lobby">>
    ELSE IF channel = <<"$lobby_last_price">> THEN <<"iex:lobby:last_price">>
    ELSE <<"iex:securities:">> \o channel

makeJoinMessage(p, channel) ==
    IF p = IEX THEN [topic |-> parseTopic(channel), event |-> "phx_join"]
    ELSE IF p = QUODD THEN [event |-> "subscribe", ticker |-> channel, action |-> "subscribe"]
    ELSE Panics

makeLeaveMessage(p, channel) ==
    IF p = IEX THEN [topic |-> parseTopic(channel), event |-> "phx_leave"]
    ELSE IF p = QUODD THEN [event |-> "unsubscribe", ticker |-> channel, action |-> "unsubscribe"]
    ELSE Panics

\* The QUODD heartbeat carries time.Now().Unix(); the clock is not modelled
\* and every heartbeat carries the same stamp.
makeHeartbeatMessage(p) ==
    IF p = IEX THEN [topic |-> <<"phoenix">>, event |-> "heartbeat"]
    ELSE IF p = QUODD THEN [event |-> "heartbeat", ticker |-> <<"now">>, action |-> "heartbeat"]
    ELSE Panics

\* What a receive on a closed channel of maps yields: the nil map.
NilMessage == [event |-> "nil"]

\* ---------------------------------------------------------------- the sockets
\* How a socket fails from the far side: a close frame with a code, or the
\* read deadline passing with nothing to read.
CloseGoingAway == "close 1001"
CloseAbnormalClosure == "close 1006"
CloseInternalServerErr == "close 1011"
ReadTimeout == "i/o timeout"
CloseErrors == {CloseGoingAway, CloseAbnormalClosure, CloseInternalServerErr}
Failures == {CloseGoingAway, CloseInternalServerErr, ReadTimeout}

\* The error ReadJSON returns on a socket in state st (not "open").
ReadError(st) == IF st = "closed" THEN "use of closed network connection" ELSE st

\* The test without its list of expected codes: any close error.
IsCloseError(err) == err \in CloseErrors

\* websocket.IsUnexpectedCloseError(err, CloseGoingAway, CloseAbnormalClosure):
\* a close error whose code is not one of the two.
IsUnexpectedCloseError(err) ==
    /\ err \in CloseErrors
    /\ err \notin {CloseGoingAway, CloseAbnormalClosure}

\* -------------------------------------------------------------------- state
VARIABLES
    variant,         \* the revision this behaviour runs
    provider,        \* cli.provider
    ws,              \* cli.ws: 0 is nil, s > 0 the socket dialled s-th
    channels,        \* cli.channels (the keys)
    joinedChannels,  \* cli.joinedChannels (the keys)
    closing,         \* cli.closing (part_001)
    gen,             \* which make() the four channel fields hold; 0 is nil
    closed,          \* per channel field, the generations that are closed
    socks,           \* the state of every socket dialled so far
    caller,          \* the goroutine that calls the public methods
    receiver,        \* startReceiver of each connection
    sender,          \* startSender of each connection
    beat,            \* heartbeat of each connection
    ticks,           \* heartbeat ticks so far
    panicked,        \* "no", or the panic that ended the process
    outstanding,     \* channels with a join handed to q and no later leave
    inflight,        \* the messages handed to q and not yet given to WriteJSON, in order
    joinedOn         \* channels with a join handed to q since the last dial and no later leave

client == <<ws, channels, joinedChannels, closing, gen, closed>>
tasks == <<receiver, sender, beat>>
history == <<outstanding, inflight, joinedOn>>
vars == <<variant, provider, client, socks, caller, tasks, ticks, panicked, history>>

Conns == 1..MaxConnect

\* The test that is always passed.
ConnectedAlways == TRUE

\* Client.Connected / Client.connected
Connected == ws # 0

\* The caller between two calls. While a call runs: the method (op), where it
\* is (pc), what refreshChannels has still to send (joins, leaves) and has sent
\* (log), and the sended channel Disconnect waits on (gen).
Idle == [pc |-> "idle", op |-> "none", joins |-> {}, leaves |-> {}, log |-> <<>>, gen |-> 0]

\* A receiver: where it is (pc), the socket it reads (sock), and the sended
\* channel its Disconnect waits on (gen).
Unborn == [pc |-> "unborn", sock |-> 0, gen |-> 0]

Started == [pc |-> "loop", sock |-> 0, gen |-> 0]

Ended == [pc |-> "done", sock |-> 0, gen |-> 0]

\* New: the maps are made; client.go also makes the four channels, part_001
\* leaves them nil until Connect.
Init ==
    /\ \E cl \in Clients : variant = cl[1] /\ provider = cl[2]
    /\ ws = 0
    /\ channels = {}
    /\ joinedChannels = {}
    /\ closing = FALSE
    /\ gen = (IF variant = ClientGo THEN 1 ELSE 0)
    /\ closed = [breakHartbeat |-> {}, breakSender |-> {}, sended |-> {}, q |-> {}]
    /\ socks = <<>>
    /\ caller = Idle
    /\ receiver = [c \in Conns |-> Unborn]
    /\ sender = [c \in Conns |-> [pc |-> "unborn", sock |-> 0, gen |-> 0, data |-> NilMessage]]
    /\ beat = [c \in Conns |-> [pc |-> "unborn", gen |-> 0]]
    /\ ticks = 0
    /\ panicked = "no"
    /\ outstanding = {}
    /\ inflight = <<>>
    /\ joinedOn = {}

Running == panicked = "no"

\* A panic ends the process: its memory is gone, nothing runs afterwards.
Panic(why) ==
    /\ panicked' = why
    /\ ws' = 0 /\ channels' = {} /\ joinedChannels' = {} /\ closing' = FALSE /\ gen' = 0
    /\ closed' = [breakHartbeat |-> {}, breakSender |-> {}, sended |-> {}, q |-> {}]
    /\ socks' = <<>> /\ caller' = Idle
    /\ receiver' = [c \in Conns |-> Unborn]
    /\ sender' = [c \in Conns |-> [pc |-> "unborn", sock |-> 0, gen |-> 0, data |-> NilMessage]]
    /\ beat' = [c \in Conns |-> [pc |-> "unborn", gen |-> 0]]
    /\ ticks' = 0 /\ outstanding' = {} /\ inflight' = <<>> /\ joinedOn' = {}
    /\ UNCHANGED <<variant, provider>>

CloseOfClosed == "panic: close of closed channel"
SendOnClosed == "panic: send on closed channel"
NilDereference == "panic: nil pointer dereference"

\* ------------------------------------------------------- the caller: Connect
\* The public call returns to the caller.
Return == caller' = Idle

\* channelInitialize making the joined map anew as well.
channelInitializeJoined ==
    /\ gen' = gen + 1
    /\ closing' = FALSE
    /\ joinedChannels' = {}
    /\ UNCHANGED channels

\* channelInitialize (part_001): four fresh channels, closing cleared; the
\* two maps are not touched.
channelInitialize ==
    /\ gen' = gen + 1
    /\ closing' = FALSE
    /\ UNCHANGED <<channels, joinedChannels>>

\* Connect, up to the call of refreshToken.
Connect ==
    /\ Running
    /\ caller.pc = "idle"
    /\ Len(socks) < MaxConnect
    /\ variant = PartOne => gen < MaxConnect
    /\ caller' = [caller EXCEPT !.pc = "refreshToken", !.op = "Connect"]
    /\ IF variant = PartOne
       THEN channelInitialize
       ELSE UNCHANGED <<gen, closing, channels, joinedChannels>>
    /\ UNCHANGED <<variant, provider, ws, closed, socks, tasks, ticks, panicked, history>>

\* Disconnect without its early returns.
DisconnectUnguarded == TRUE

\* Disconnect's two early returns: not connected, or (part_001) closing.
DisconnectProceeds == Connected /\ ~(variant = PartOne /\ closing)

\* refreshToken: makeAuthURL panics on a provider it does not know; the
\* credential exchange answers 200 (ok) or fails, and Connect returns the
\* error. Then refreshWebsocket, up to the dial: a connected client is
\* disconnected first.
refreshToken ==
    /\ Running
    /\ caller.pc = "refreshToken"
    /\ IF makeAuthURL(provider) = Panics
       THEN Panic(Panics)
       ELSE /\ \E ok \in BOOLEAN :
                 IF ok
                 THEN caller' = [caller EXCEPT !.pc =
                                     IF DisconnectProceeds THEN "signal" ELSE "dial"]
                 ELSE Return
            /\ UNCHANGED <<variant, provider, client, socks, tasks, ticks, panicked, history>>

\* onConnected: the three goroutines of the connection on socket s.
onConnected(s) ==
    /\ receiver' = [receiver EXCEPT ![s] = Started]
    /\ sender' = [sender EXCEPT ![s] = [pc |-> "select", sock |-> 0, gen |-> gen,
                                        data |-> NilMessage]]
    /\ beat' = [beat EXCEPT ![s] = [pc |-> "select", gen |-> gen]]

\* refreshWebsocket, the dial: an error is returned; a socket is stored in
\* cli.ws and the goroutines are started.
Dial ==
    /\ Running
    /\ caller.pc = "dial"
    /\ IF makeSoketURL(provider, "token") = Panics
       THEN Panic(Panics)
       ELSE /\ \E ok \in BOOLEAN :
                 IF ok
                 THEN /\ socks' = Append(socks, "open")
                      /\ ws' = Len(socks) + 1
                      /\ onConnected(Len(socks) + 1)
                      /\ joinedOn' = {}
                 ELSE UNCHANGED <<socks, ws, tasks, joinedOn>>
            /\ Return
            /\ UNCHANGED <<variant, provider, channels, joinedChannels, closing, gen, closed, ticks, panicked,
                           outstanding, inflight>>

\* ---------------------------------------------------------------- Disconnect
\* Disconnect runs in the caller (thread 0) and, in part_001, deferred in the
\* receiver of connection t (thread t > 0).
Threads == {0} \cup Conns

At(t, p) == IF t = 0 THEN caller.pc = p ELSE receiver[t].pc = p

Goto(t, p, g) ==
    IF t = 0
    THEN caller' = [caller EXCEPT !.pc = p, !.gen = g] /\ UNCHANGED receiver
    ELSE receiver' = [receiver EXCEPT ![t].pc = p, ![t].gen = g] /\ UNCHANGED caller

\* Disconnect returns in thread t: to refreshWebsocket (which drops the
\* result), to the caller, or out of the receiver's goroutine.
Returned(t) ==
    IF t # 0
    THEN receiver' = [receiver EXCEPT ![t] = Ended] /\ UNCHANGED caller
    ELSE IF caller.op = "Connect"
    THEN caller' = [caller EXCEPT !.pc = "dial", !.gen = 0] /\ UNCHANGED receiver
    ELSE Return /\ UNCHANGED receiver

\* Disconnect called by the caller: the early returns.
Disconnect ==
    /\ Running
    /\ caller.pc = "idle"
    /\ IF DisconnectProceeds
       THEN caller' = [caller EXCEPT !.pc = "signal", !.op = "Disconnect"]
       ELSE Return
    /\ UNCHANGED <<variant, provider, client, socks, tasks, ticks, panicked, history>>

\* onClosing, close(cli.breakHartbeat), close(cli.breakSender); the thread
\* then waits on the sended (client.go: sending) channel it reads here.
Disconnect_signal(t) ==
    /\ Running
    /\ At(t, "signal")
    /\ IF gen \in closed.breakHartbeat \/ gen \in closed.breakSender
       THEN Panic(CloseOfClosed)
       ELSE /\ closing' = (IF variant = PartOne THEN TRUE ELSE closing)
            /\ closed' = [closed EXCEPT !.breakHartbeat = @ \cup {gen},
                                        !.breakSender = @ \cup {gen}]
            /\ Goto(t, "wait", gen)
            /\ UNCHANGED <<variant, provider, ws, channels, joinedChannels, gen, socks,
                           sender, beat, ticks, panicked, history>>

\* <-cli.sended returns once the channel is closed. part_001: onClosed and
\* return; client.go goes on to close the socket.
Disconnect_wait(t) ==
    /\ Running
    /\ At(t, "wait")
    /\ (IF t = 0 THEN caller.gen ELSE receiver[t].gen) \in closed.sended
    /\ IF variant = PartOne
       THEN closing' = FALSE /\ Returned(t)
       ELSE Goto(t, "close", 0) /\ UNCHANGED closing
    /\ UNCHANGED <<variant, provider, ws, channels, joinedChannels, gen, closed, socks,
                   sender, beat, ticks, panicked, history>>

\* Whether Close on socket s may report an error: only on a socket whose
\* peer has failed (the closing handshake cannot be written).
CloseMayFail(s) == socks[s] \in Failures

\* client.go: err := cli.ws.Close(); on an error onCloseFailed and return it
\* with cli.ws kept; otherwise cli.ws = nil, onClosed.
Disconnect_close ==
    /\ Running
    /\ caller.pc = "close"
    /\ IF ws = 0
       THEN Panic(NilDereference)
       ELSE /\ \E err \in BOOLEAN :
                 /\ err => CloseMayFail(ws)
                 /\ ws' = (IF err THEN ws ELSE 0)
            /\ Returned(0)
            /\ socks' = [socks EXCEPT ![ws] = "closed"]
            /\ UNCHANGED <<variant, provider, channels, joinedChannels, closing, gen, closed,
                           sender, beat, ticks, panicked, history>>

\* ------------------------------------------------------------ subscriptions
\* The first loop without its test on joinedChannels.
ToJoinEvery(want, joined) == want

\* refreshChannels' first loop: a join for every desired channel that is not
\* joined.
ToJoin(want, joined) == want \ joined

\* refreshChannels' second loop: a leave for every joined channel that is not
\* desired.
ToLeave(want, joined) == joined \ want

\* The rebuild without the make(): the desired channels are added to the
\* joined ones.
RebuiltOnto(want, joined) == joined \cup want

\* refreshChannels' last four lines: the joined set is rebuilt from the
\* desired one.
Rebuilt(want, joined) == want

\* refreshChannels, entered by op with the desired set just updated to want:
\* nothing happens on a client that is not connected; otherwise the sends
\* follow, one step each, and then the rebuild.
refreshChannels(op, want) ==
    /\ channels' = want
    /\ IF ~Connected
       THEN Return
       ELSE caller' = [caller EXCEPT !.pc = "refreshChannels", !.op = op,
                                     !.joins = ToJoin(want, joinedChannels),
                                     !.leaves = ToLeave(want, joinedChannels)]
    /\ UNCHANGED <<variant, provider, ws, joinedChannels, closing, gen, closed, socks, tasks, ticks, panicked, history>>

Join(args) ==
    /\ Running
    /\ caller.pc = "idle"
    /\ refreshChannels("Join", channels \cup {TrimSpace(a) : a \in args})

Leave(args) ==
    /\ Running
    /\ caller.pc = "idle"
    /\ refreshChannels("Leave", channels \ {TrimSpace(a) : a \in args})

LeaveAll ==
    /\ Running
    /\ caller.pc = "idle"
    /\ refreshChannels("LeaveAll", {})

\* -------------------------------------------------------------- the queue q
\* make(chan map[string]interface{}): no buffer.
QueueCapacity == 0

\* A send on q (generation g) completes only as a hand-off to a sender that
\* waits in its select on the same q; the sender goes on to write msg.
Handoff(c, g, msg) ==
    /\ g \notin closed.q
    /\ sender[c].pc = "select"
    /\ sender[c].gen = g
    /\ sender' = [sender EXCEPT ![c].pc = "write", ![c].data = msg]
    /\ inflight' = Append(inflight, msg)

\* The two loops in the other order: joins once no leave remains.
InFirstLoopLast(joins, leaves) == leaves = {}

\* Whether refreshChannels is in its first loop, the one of the joins: the
\* second loop begins when the first is over.
InFirstLoop(joins, leaves) == joins # {}

\* refreshChannels sends one message: a join while joins remain (the first
\* loop), then the leaves; map iteration picks any remaining key.
refreshChannels_send(c, k) ==
    /\ Running
    /\ caller.pc = "refreshChannels"
    /\ IF InFirstLoop(caller.joins, caller.leaves)
       THEN /\ k \in caller.joins
            /\ Handoff(c, gen, makeJoinMessage(provider, k))
            /\ caller' = [caller EXCEPT !.joins = @ \ {k},
                              !.log = Append(@, makeJoinMessage(provider, k))]
            /\ outstanding' = outstanding \cup {k}
            /\ joinedOn' = joinedOn \cup {k}
       ELSE /\ k \in caller.leaves
            /\ Handoff(c, gen, makeLeaveMessage(provider, k))
            /\ caller' = [caller EXCEPT !.leaves = @ \ {k},
                              !.log = Append(@, makeLeaveMessage(provider, k))]
            /\ outstanding' = outstanding \ {k}
            /\ joinedOn' = joinedOn \ {k}
    /\ UNCHANGED <<variant, provider, client, socks, receiver, beat, ticks, panicked>>

\* A send on a closed q panics, also when it was already waiting.
refreshChannels_closed ==
    /\ Running
    /\ caller.pc = "refreshChannels"
    /\ caller.joins \cup caller.leaves # {}
    /\ gen \in closed.q
    /\ Panic(SendOnClosed)

\* refreshChannels after its loops: the rebuild, and the return.
refreshChannels_rebuild ==
    /\ Running
    /\ caller.pc = "refreshChannels"
    /\ caller.joins \cup caller.leaves = {}
    /\ joinedChannels' = Rebuilt(channels, joinedChannels)
    /\ Return
    /\ UNCHANGED <<variant, provider, ws, channels, closing, gen, closed, socks, tasks,
                   ticks, panicked, history>>

\* ---------------------------------------------------------------- the sender
\* A receive on a closed q yields the nil map at once.
startSender_closed(c) ==
    /\ Running
    /\ sender[c].pc = "select"
    /\ sender[c].gen \in closed.q
    /\ sender' = [sender EXCEPT ![c].pc = "write", ![c].data = NilMessage]
    /\ UNCHANGED <<variant, provider, client, socks, caller, receiver, beat, ticks, panicked,
                   outstanding, inflight, joinedOn>>

\* The queue without the first occurrence of msg.
RECURSIVE Written(_, _)
Written(q, msg) ==
    IF q = <<>> THEN <<>>
    ELSE IF Head(q) = msg THEN Tail(q)
    ELSE <<Head(q)>> \o Written(Tail(q), msg)

\* What WriteJSON may answer on socket s: success on an open one, an error on
\* one closed here, either on one whose peer has failed.
WriteMay(s, ok) ==
    /\ socks[s] = "open" => ok
    /\ socks[s] = "closed" => ~ok

\* cli.ws.WriteJSON(data), on whatever cli.ws holds now; on an error the
\* handler is called.
startSender_write(c) ==
    /\ Running
    /\ sender[c].pc = "write"
    /\ IF ws = 0
       THEN Panic(NilDereference)
       ELSE /\ \E ok \in BOOLEAN :
                 /\ WriteMay(ws, ok)
                 /\ sender' = [sender EXCEPT ![c] =
                        IF ok THEN [pc |-> "select", sock |-> 0, gen |-> gen, data |-> NilMessage]
                        ELSE [pc |-> "onError", sock |-> ws, gen |-> 0, data |-> NilMessage]]
            /\ inflight' = Written(inflight, sender[c].data)
            /\ UNCHANGED <<variant, provider, client, socks, caller, receiver, beat,
                           ticks, panicked, outstanding, joinedOn>>

\* The sender returning after the handler: the loop is left on a failed
\* write.
startSender_onErrorReturn(c) ==
    /\ Running
    /\ sender[c].pc = "onError"
    /\ sender' = [sender EXCEPT ![c].pc = "done", ![c].sock = 0, ![c].gen = 0]
    /\ UNCHANGED <<variant, provider, client, socks, caller, receiver, beat, ticks, panicked,
                   history>>

\* onError returns to the sender's loop, which evaluates cli.q and
\* cli.breakSender anew.
startSender_onError(c) ==
    /\ Running
    /\ sender[c].pc = "onError"
    /\ sender' = [sender EXCEPT ![c].pc = "select", ![c].sock = 0, ![c].gen = gen]
    /\ UNCHANGED <<variant, provider, client, socks, caller, receiver, beat, ticks, panicked,
                   history>>

\* case <-cli.breakSender. len(cli.q) is never above the capacity, so the
\* drain loop does not wait. client.go closes sending and returns; part_001
\* returns into its deferred function, whose first act is close(cli.q).
startSender_break(c) ==
    /\ Running
    /\ sender[c].pc = "select"
    /\ sender[c].gen \in closed.breakSender
    /\ ~(0 < QueueCapacity)
    /\ IF variant = ClientGo
       THEN IF gen \in closed.sended
            THEN Panic(CloseOfClosed)
            ELSE /\ closed' = [closed EXCEPT !.sended = @ \cup {gen}]
                 /\ sender' = [sender EXCEPT ![c].pc = "done", ![c].gen = 0]
                 /\ UNCHANGED <<variant, provider, ws, channels, joinedChannels, closing, gen,
                                socks, caller, receiver, beat, ticks, panicked, history>>
       ELSE IF gen \in closed.q
            THEN Panic(CloseOfClosed)
            ELSE /\ closed' = [closed EXCEPT !.q = @ \cup {gen}]
                 /\ sender' = [sender EXCEPT ![c].pc = "defer", ![c].gen = 0]
                 /\ UNCHANGED <<variant, provider, ws, channels, joinedChannels, closing, gen,
                                socks, caller, receiver, beat, ticks, panicked, history>>

\* part_001, the rest of the deferred function: cli.ws.Close(), cli.ws = nil,
\* close(cli.sended).
startSender_defer(c) ==
    /\ Running
    /\ sender[c].pc = "defer"
    /\ IF ws = 0
       THEN Panic(NilDereference)
       ELSE IF gen \in closed.sended
       THEN Panic(CloseOfClosed)
       ELSE /\ socks' = [socks EXCEPT ![ws] = "closed"]
            /\ ws' = 0
            /\ closed' = [closed EXCEPT !.sended = @ \cup {gen}]
            /\ sender' = [sender EXCEPT ![c].pc = "done"]
            /\ UNCHANGED <<variant, provider, channels, joinedChannels, closing, gen, caller,
                           receiver, beat, ticks, panicked, history>>

\* ------------------------------------------------------------- the heartbeat
\* Whether a sender waits in its select on the q of generation g.
Awaited(g) == \E d \in Conns : sender[d].pc = "select" /\ sender[d].gen = g

\* case <-hearbeatTime.C: the send on cli.q. It panics on a closed q, is a
\* hand-off at once when a sender waits on q, and waits otherwise.
heartbeat_tick(c) ==
    /\ Running
    /\ beat[c].pc = "select"
    /\ ticks < MaxTick
    /\ IF gen \in closed.q
       THEN Panic(SendOnClosed)
       ELSE /\ ticks' = ticks + 1
            /\ IF Awaited(gen)
               THEN /\ \E d \in Conns : Handoff(d, gen, makeHeartbeatMessage(provider))
                    /\ beat' = [beat EXCEPT ![c].gen = gen]
               ELSE /\ beat' = [beat EXCEPT ![c].pc = "send", ![c].gen = gen]
                    /\ UNCHANGED <<sender, inflight>>
            /\ UNCHANGED <<variant, provider, client, socks, caller, receiver, panicked,
                           outstanding, joinedOn>>

\* The waiting heartbeat message is handed to sender d; the loop evaluates
\* cli.breakHartbeat anew.
heartbeat_send(c, d) ==
    /\ Running
    /\ beat[c].pc = "send"
    /\ Handoff(d, beat[c].gen, makeHeartbeatMessage(provider))
    /\ beat' = [beat EXCEPT ![c].pc = "select", ![c].gen = gen]
    /\ UNCHANGED <<variant, provider, client, socks, caller, receiver, ticks, panicked,
                   outstanding, joinedOn>>

\* The q the heartbeat sends on is closed: panic.
heartbeat_closed(c) ==
    /\ Running
    /\ beat[c].pc = "send"
    /\ beat[c].gen \in closed.q
    /\ Panic(SendOnClosed)

\* case <-cli.breakHartbeat
heartbeat_break(c) ==
    /\ Running
    /\ beat[c].pc = "select"
    /\ beat[c].gen \in closed.breakHartbeat
    /\ beat' = [beat EXCEPT ![c].pc = "done", ![c].gen = 0]
    /\ UNCHANGED <<variant, provider, client, socks, caller, receiver, sender, ticks, panicked,
                   history>>

\* -------------------------------------------------------------- the far side
\* An open socket fails: the peer closes it with a code, or goes silent.
SocketFails(s, how) ==
    /\ Running
    /\ s \in DOMAIN socks
    /\ socks[s] = "open"
    /\ Cardinality({x \in DOMAIN socks : socks[x] \in Failures}) < MaxFail
    /\ socks' = [socks EXCEPT ![s] = how]
    /\ UNCHANGED <<variant, provider, client, caller, tasks, ticks, panicked, history>>

\* -------------------------------------------------------------- the receiver
\* The loop's head: (part_001) SetReadDeadline, then ReadJSON on cli.ws.
startReceiver_read(c) ==
    /\ Running
    /\ receiver[c].pc = "loop"
    /\ IF ws = 0
       THEN Panic(NilDereference)
       ELSE /\ receiver' = [receiver EXCEPT ![c].pc = "read", ![c].sock = ws]
            /\ UNCHANGED <<variant, provider, client, socks, caller, sender, beat,
                           ticks, panicked, history>>

\* ReadJSON returns a message: onQuote, and the loop again.
startReceiver_quote(c) ==
    /\ Running
    /\ receiver[c].pc = "read"
    /\ socks[receiver[c].sock] = "open"
    /\ receiver' = [receiver EXCEPT ![c].pc = "loop", ![c].sock = 0]
    /\ UNCHANGED <<variant, provider, client, socks, caller, sender, beat, ticks, panicked,
                   history>>

\* The receiver returns: part_001 into the deferred Disconnect, client.go out
\* of the goroutine.
AfterReturn == IF variant = PartOne THEN [Ended EXCEPT !.pc = "defer"] ELSE Ended

\* ReadJSON returns an error: the handler is called for an unexpected close
\* error only; then the return.
startReceiver_error(c) ==
    /\ Running
    /\ receiver[c].pc = "read"
    /\ socks[receiver[c].sock] # "open"
    /\ receiver' = [receiver EXCEPT ![c] =
           IF IsUnexpectedCloseError(ReadError(socks[receiver[c].sock]))
           THEN [receiver[c] EXCEPT !.pc = "onError"]
           ELSE AfterReturn]
    /\ UNCHANGED <<variant, provider, client, socks, caller, sender, beat, ticks, panicked,
                   history>>

\* onError returns, and so does the receiver.
startReceiver_onError(c) ==
    /\ Running
    /\ receiver[c].pc = "onError"
    /\ receiver' = [receiver EXCEPT ![c] = AfterReturn]
    /\ UNCHANGED <<variant, provider, client, socks, caller, sender, beat, ticks, panicked,
                   history>>

\* part_001: the deferred cli.Disconnect(), with its early returns.
startReceiver_defer(c) ==
    /\ Running
    /\ receiver[c].pc = "defer"
    /\ receiver' = [receiver EXCEPT ![c] =
           IF DisconnectProceeds THEN [receiver[c] EXCEPT !.pc = "signal"] ELSE Ended]
    /\ UNCHANGED <<variant, provider, client, socks, caller, sender, beat, ticks, panicked,
                   history>>

\* ----------------------------------------------------------------- behaviours
Next ==
    \/ Connect
    \/ refreshToken
    \/ Dial
    \/ Disconnect
    \/ \E t \in Threads : Disconnect_signal(t)
    \/ \E t \in Threads : Disconnect_wait(t)
    \/ Disconnect_close
    \/ \E args \in ChannelArgs : Join(args)
    \/ \E args \in ChannelArgs : Leave(args)
    \/ LeaveAll
    \/ \E c \in Conns, k \in channels \cup joinedChannels : refreshChannels_send(c, k)
    \/ refreshChannels_closed
    \/ refreshChannels_rebuild
    \/ \E c \in Conns : startSender_closed(c)
    \/ \E c \in Conns : startSender_write(c)
    \/ \E c \in Conns : startSender_onError(c)
    \/ \E c \in Conns : startSender_break(c)
    \/ \E c \in Conns : startSender_defer(c)
    \/ \E c \in Conns : heartbeat_tick(c)
    \/ \E c, d \in Conns : heartbeat_send(c, d)
    \/ \E c \in Conns : heartbeat_closed(c)
    \/ \E c \in Conns : heartbeat_break(c)
    \/ \E s \in Conns, how \in Failures : SocketFails(s, how)
    \/ \E c \in Conns : startReceiver_read(c)
    \/ \E c \in Conns : startReceiver_quote(c)
    \/ \E c \in Conns : startReceiver_error(c)
    \/ \E c \in Conns : startReceiver_onError(c)
    \/ \E c \in Conns : startReceiver_defer(c)

Spec == Init /\ [][Next]_vars

\* ------------------------------------------------------------- subscriptions
AAPL == <<"AAPL">>
MSFT == <<"MSFT">>

\* C1: when a reconciliation pass completes (refreshChannels returns on a
\* client that was connected when it began), the joined set equals the desired
\* set, and the channels with a join emitted and no later leave are the
\* desired set.
C1_Convergence ==
    [][(caller.pc = "refreshChannels" /\ caller'.pc = "idle" /\ panicked' = "no")
          => (joinedChannels' = channels' /\ outstanding' = channels')]_vars

\* A pass has completed on an open connection after Join and Leave calls: MSFT
\* alone is desired, joined, and outstanding.
C1_Witness ==
    /\ Running
    /\ Connected
    /\ caller.pc = "idle"
    /\ channels = {MSFT}
    /\ joinedChannels = {MSFT}
    /\ outstanding = {MSFT}
    /\ inflight = <<>>

\* The messages the pass in progress has emitted, and those a pass owes: a
\* join for every desired channel that is not joined, a leave for every
\* joined channel that is not desired.
Emitted == {caller.log[i] : i \in DOMAIN caller.log}

Owed ==
    {makeJoinMessage(provider, k) : k \in channels \ joinedChannels}
        \cup {makeLeaveMessage(provider, k) : k \in joinedChannels \ channels}

\* C2: a reconciliation pass emits nothing but the joins for the desired
\* channels that are not joined and the leaves for the joined channels that
\* are not desired, none of them twice, and all of them by the time its sends
\* are over.
C2_MinimalMessages ==
    caller.pc = "refreshChannels" =>
        /\ Emitted \subseteq Owed
        /\ Cardinality(Emitted) = Len(caller.log)
        /\ (caller.joins \cup caller.leaves = {}) => Emitted = Owed

\* Leave(AAPL) with AAPL and MSFT joined, its sends over: one leave for AAPL
\* and no join.
C2_Witness ==
    /\ caller.pc = "refreshChannels"
    /\ caller.op = "Leave"
    /\ caller.joins \cup caller.leaves = {}
    /\ joinedChannels = {AAPL, MSFT}
    /\ channels = {MSFT}
    /\ caller.log = <<makeLeaveMessage(provider, AAPL)>>

\* ---------------------------------------------------------------- Disconnect
\* C3: a Disconnect called after a Disconnect has returned is a no-op: when
\* a Disconnect that went through the shutdown returns, the client is in a
\* state in which Disconnect takes one of its early returns.
C3_Idempotent ==
    [][(caller.op = "Disconnect" /\ caller'.pc = "idle" /\ panicked' = "no")
          => ~DisconnectProceeds']_vars

\* C4: a Disconnect called on a connected client returns, nothing ends the
\* process while it runs, and when it returns Connected() is false, the
\* socket is closed and no sender is left running.
C4_ClosingCompletes ==
    [][caller.op = "Disconnect"
          => /\ panicked' = "no"
             /\ caller'.pc = "idle"
                   => /\ ~Connected'
                      /\ \A c \in DOMAIN socks' :
                            socks'[c] = "closed" /\ sender'[c].pc = "done"]_vars

\* ------------------------------------------------------------------- Connect
\* A sender that can never stop: it waits in its select on channels that are
\* no longer the client's, that nobody has closed, and on whose q no send is
\* waiting.
Stranded(c) ==
    /\ sender[c].pc = "select"
    /\ sender[c].gen # gen
    /\ sender[c].gen \notin closed.breakSender \cup closed.q
    /\ \A b \in Conns : ~(beat[b].pc = "send" /\ beat[b].gen = sender[c].gen)

\* Connect waits in Disconnect for a sended channel that no sender is left to
\* close.
ConnectHangs ==
    /\ caller.op = "Connect"
    /\ caller.pc = "wait"
    /\ caller.gen \notin closed.sended
    /\ \A c \in Conns : sender[c].pc \in {"unborn", "done"} \/ Stranded(c)

\* C5: Connect called on a connected client tears the old connection down and
\* returns: it does not hang.
C5_ConnectReturns == ~ConnectHangs

\* Every connection made so far is torn down: socket closed, tasks ended.
TornDown ==
    /\ ws = 0
    /\ \A c \in DOMAIN socks :
          /\ socks[c] = "closed"
          /\ receiver[c].pc = "done" /\ sender[c].pc = "done" /\ beat[c].pc = "done"

\* C6: a Connect after a connection was torn down makes a fresh connection:
\* at the moment the new socket is stored, none of the channels its tasks use
\* (the two shutdown signals, sended, q) is closed.
C6_Reconnect ==
    [][(caller.pc = "dial" /\ ws' # 0 /\ socks # <<>> /\ TornDown)
          => /\ gen' \notin closed'.breakHartbeat \cup closed'.breakSender
             /\ gen' \notin closed'.sended \cup closed'.q]_vars

\* ------------------------------------------------------------------ failures
\* The receiver started for socket s has met a read error.
Reported(s) == receiver[s].pc \in {"onError", "defer", "signal", "wait", "done"}

\* C7: an unexpected closure the receiver detects gives one call of the error
\* handler, the receiver's: the sender does not report a failed write on that
\* socket as well, and when the receiver ends Connected() is false.
C7_OneReport ==
    [][\A c \in Conns :
          /\ (sender[c].pc = "write" /\ sender'[c].pc = "onError")
                => ~(socks[ws] = CloseInternalServerErr /\ Reported(ws))
          /\ (receiver[c].pc = "onError" /\ receiver'[c].pc = "done")
                => ~Connected']_vars

\* The closures the receiver is to keep quiet about: the socket closed by this
\* client, and the peer's close with one of the two expected codes.
Expected == {"closed", CloseGoingAway, CloseAbnormalClosure}

\* The receiver of c leaves its read with an error.
ReadFails(c) == receiver[c].pc = "read" /\ receiver'[c].pc \notin {"read", "loop", "unborn"}

\* C8: every read failure that is not an expected closure is passed to the
\* error handler.
C8_Surfaced ==
    [][\A c \in Conns :
          (ReadFails(c) /\ socks[receiver[c].sock] \notin Expected)
              => receiver'[c].pc = "onError"]_vars

C10_SubmissionOrder ==
    [][\A c \in Conns :
          (/\ sender[c].pc = "write"
           /\ sender'[c].pc \in {"select", "onError"}
           /\ sender[c].data # NilMessage)
              => sender[c].data = Head(inflight)]_vars

\* ------------------------------------------------------------------ shutdown
\* A send on the q of generation g is waiting for a receiver: the heartbeat's,
\* or the next one of a pass that has sends left.
Waiting(g) ==
    \/ \E b \in Conns : beat[b].pc = "send" /\ beat[b].gen = g
    \/ caller.pc = "refreshChannels" /\ caller.joins \cup caller.leaves # {} /\ gen = g

\* The sender of c takes the shutdown signal in this step and leaves its
\* loop; nothing receives from its q afterwards.
TakesShutdown(c) == sender[c].pc = "select" /\ sender'[c].pc \in {"done", "defer"}

\* C11: the shutdown drains the queue: a message that is submitted and not
\* yet written when the dispatcher takes the shutdown signal is written
\* before the dispatcher stops and the socket is released; so the dispatcher
\* does not leave its loop while a send on its q is waiting.
C11_DrainOnShutdown ==
    [][\A c \in Conns : TakesShutdown(c) => ~Waiting(sender[c].gen)]_vars

\* ---------------------------------------------------------- order in a pass
\* The channel names the client can hold.
Names == {TrimSpace(a) : a \in RawChannels}

IsJoin(msg) == \E k \in Names : msg = makeJoinMessage(provider, k)

IsLeave(msg) == \E k \in Names : msg = makeLeaveMessage(provider, k)

\* C12: within one reconciliation pass every join is emitted before every
\* leave: no leave of the pass's log comes before a join.
C12_JoinsBeforeLeaves ==
    \A i, j \in DOMAIN caller.log :
        i < j => ~(IsLeave(caller.log[i]) /\ IsJoin(caller.log[j]))

\* The first pass on the second connection, after Leave(AAPL) and Join(MSFT)
\* were called while disconnected: the join of MSFT, then the leave of AAPL.
C12_Witness ==
    /\ Len(socks) = 2
    /\ caller.pc = "refreshChannels"
    /\ caller.log = <<makeJoinMessage(provider, MSFT), makeLeaveMessage(provider, AAPL)>>

CallerSteps ==
    \/ refreshToken
    \/ Dial
    \/ Disconnect_signal(0)
    \/ Disconnect_wait(0)
    \/ Disconnect_close
    \/ \E c \in Conns, k \in channels \cup joinedChannels : refreshChannels_send(c, k)
    \/ refreshChannels_closed
    \/ refreshChannels_rebuild

SenderSteps(c) ==
    \/ startSender_closed(c)
    \/ startSender_write(c)
    \/ startSender_onError(c)
    \/ startSender_break(c)
    \/ startSender_defer(c)

HeartbeatSteps(c) ==
    \/ heartbeat_tick(c)
    \/ \E d \in Conns : heartbeat_send(c, d)
    \/ heartbeat_closed(c)
    \/ heartbeat_break(c)

ReceiverSteps(c) ==
    \/ startReceiver_read(c)
    \/ startReceiver_quote(c)
    \/ startReceiver_error(c)
    \/ startReceiver_onError(c)
    \/ startReceiver_defer(c)
    \/ Disconnect_signal(c)
    \/ Disconnect_wait(c)

\* The behaviours in which the scheduler keeps running every goroutine that
\* can run; the caller is free to make no further call.
FairSpec ==
    /\ Spec
    /\ WF_vars(CallerSteps)
    /\ \A c \in Conns :
          WF_vars(SenderSteps(c)) /\ WF_vars(HeartbeatSteps(c)) /\ WF_vars(ReceiverSteps(c))

\* ------------------------------------------------------------------- Connect
\* The client holds a socket that is open at both ends.
Open == ws # 0 /\ socks[ws] = "open"

\* C14: Connect joins the requested channels: once Connect has returned with
\* a connection open, a join has been or will be sent for every desired
\* channel, unless the caller makes another call or the connection ends first.
C14_ConnectJoins ==
    (Running /\ Open /\ caller.pc = "idle")
        ~> \/ channels \subseteq outstanding
           \/ ~Running \/ ~Open \/ caller.pc # "idle"

\* Connect returns an error in this step: the credential exchange or the dial
\* has failed, no socket was stored.
ConnectFails ==
    /\ caller.op = "Connect"
    /\ caller.pc \in {"refreshToken", "dial"}
    /\ caller'.pc = "idle"
    /\ panicked' = "no"
    /\ socks' = socks

\* C15: a Connect that fails leaves the client disconnected: Connected() is
\* false when it returns, the step starts no task, and the desired and joined
\* sets are as they were.
C15_FailedConnect ==
    [][ConnectFails
          => /\ ~Connected'
             /\ tasks' = tasks
             /\ channels' = channels /\ joinedChannels' = joinedChannels]_vars

\* ----------------------------------------------------------------- Connected
\* C16: Connected() is true exactly while a connection is open: when it is
\* true the socket it names has not been closed by this client and, between
\* the caller's calls, the receiver of that socket has not returned on a read
\* error; when it is false no socket is left open.
C16_ConnectedIffOpen ==
    Running =>
        /\ Connected => /\ socks[ws] # "closed"
                        /\ ~(caller.pc = "idle" /\ receiver[ws].pc = "done")
        /\ ~Connected => \A s \in DOMAIN socks : socks[s] # "open"

\* ---------------------------------------------------- Disconnect before Connect
\* No Connect of this client has succeeded yet.
NeverConnected == Running /\ socks = <<>>

\* C17: on a client that was never connected a call of the caller closes no
\* shutdown signal and no socket and waits on nothing: from between two calls
\* the caller never enters Disconnect's shutdown, and the signals, the sockets
\* and cli.ws stay as they are. (Disconnect itself changes nothing at all.)
C17_DisconnectBeforeConnect ==
    [][(NeverConnected /\ caller.pc = "idle")
          => /\ caller'.pc \notin {"signal", "wait", "close"}
             /\ caller'.op # "Disconnect"
             /\ closed' = closed /\ socks' = socks /\ ws' = ws]_vars

\* A client on which a Connect has failed and Disconnect can be called: no
\* socket was ever stored, part_001 has made its channels, none is closed.
C17_Witness ==
    /\ NeverConnected
    /\ caller = Idle
    /\ variant = PartOne /\ gen = 1
    /\ ~DisconnectProceeds
    /\ closed.breakHartbeat \cup closed.breakSender = {}

\* ------------------------------------------------------------------ provider
\* C18: a provider that is not known is rejected when the client is made, so
\* no operation of a client aborts because of the provider: the panic of the
\* provider switches never happens.
C18_ProviderRejected == panicked # Panics

\* ---------------------------------------------------------------- alternation
\* The pass in progress emits a message in this step.
Emits == caller.pc = "refreshChannels" /\ Len(caller'.log) = Len(caller.log) + 1

\* C19: for every channel the joins and leaves emitted over the life of the
\* client alternate, a join first: a join is emitted only for a channel with
\* no join outstanding (none yet, or a leave since the last), a leave only
\* for a channel whose last message was a join.
C19_Alternation ==
    [][(Emits /\ panicked' = "no")
          => LET msg == caller'.log[Len(caller'.log)]
             IN  \A k \in Names :
                    /\ msg = makeJoinMessage(provider, k) => k \notin outstanding
                    /\ msg = makeLeaveMessage(provider, k) => k \in outstanding]_vars

\* Join(AAPL) called again with AAPL joined: the pass has nothing to send, the
\* one join stays outstanding.
C19_Witness ==
    /\ Connected
    /\ caller.pc = "refreshChannels"
    /\ caller.op = "Join"
    /\ channels = {AAPL}
    /\ joinedChannels = {AAPL}
    /\ outstanding = {AAPL}
    /\ caller.joins = {}
    /\ caller.log = <<>>

\* ------------------------------------------------------------ the two sets
\* C20: the desired and the joined set belong to the client, not to a
\* connection: no step of Connect or Disconnect (in the caller or deferred in
\* a receiver) changes either; the joined set changes only in a pass of
\* refreshChannels, the desired set only as the caller enters Join, Leave or
\* LeaveAll.
C20_ClientScoped ==
    [][panicked' = "no" =>
          /\ (caller.op \in {"Connect", "Disconnect"} \/ caller'.op \in {"Connect", "Disconnect"})
                => (channels' = channels /\ joinedChannels' = joinedChannels)
          /\ joinedChannels' # joinedChannels => caller.pc = "refreshChannels"
          /\ channels' # channels
                => (caller.pc = "idle" /\ caller'.op \notin {"Connect", "Disconnect"})]_vars

\* Two connections have been made and closed; AAPL, joined on the first, is
\* still desired and joined.
C20_Witness ==
    /\ Running
    /\ ws = 0
    /\ socks = <<"closed", "closed">>
    /\ caller = Idle
    /\ channels = {AAPL}
    /\ joinedChannels = {AAPL}

\* ------------------------------------------------------------- the heartbeat
\* The heartbeat of connection c completes a send on q in this step: its
\* message passes to a dispatcher, which goes on to write it.
HeartbeatHands(c) == beat[c].pc = "send" /\ beat'[c].pc = "select"

\* C21: the heartbeat stops with its connection: once the socket of a
\* connection has been closed by this client (Disconnect is returning or has
\* returned), the heartbeat of that connection submits no message.
C21_HeartbeatStops ==
    [][\A c \in Conns :
          (HeartbeatHands(c) /\ panicked' = "no") => socks[c] # "closed"]_vars

\* ------------------------------------------------------------ failed writes
\* The sender of c takes a step of its own that is not a panic.
SenderActs(c) == sender'[c] # sender[c] /\ panicked' = "no"

\* C22: a failed write does not end the dispatcher: from WriteJSON it goes
\* back to its select or, when the write failed, to the error handler and
\* from there back to its select; it leaves its loop only from the select,
\* on the shutdown signal.
C22_WriteFailureContinues ==
    [][\A c \in Conns :
          /\ (sender[c].pc = "write" /\ SenderActs(c))
                => sender'[c].pc \in {"select", "onError"}
          /\ (sender[c].pc = "onError" /\ SenderActs(c))
                => sender'[c].pc = "select"
          /\ (sender[c].pc \notin {"defer", "done"} /\ sender'[c].pc \in {"defer", "done"})
                => (sender[c].pc = "select" /\ sender[c].gen \in closed.breakSender)]_vars

\* A dispatcher is in the error handler for a failed write while a pass of
\* Join has a join waiting on q: the message the dispatcher consumes next.
C22_Witness ==
    \E c \in Conns :
        /\ sender[c].pc = "onError"
        /\ caller.pc = "refreshChannels"
        /\ caller.op = "Join"
        /\ caller.joins # {}

\* ----------------------------------------------------- concurrent Disconnects
\* Thread t is past Disconnect's checks and about to close the two shutdown
\* signals the client holds.
AboutToClose(t) == At(t, "signal")

\* C23: the checks of Disconnect let one thread at a time through to the
\* closes: the caller's Disconnect and a receiver's deferred Disconnect are
\* never both about to close the shutdown signals.
C23_SingleCloser ==
    \A t1, t2 \in Threads : (AboutToClose(t1) /\ AboutToClose(t2)) => t1 = t2

\* C24: no producer sends on q once the dispatcher has closed it: the panic
\* of a send on a closed channel never happens.
C24_NoSendOnClosed == panicked # SendOnClosed

\* ------------------------------------------------------------ blocked for ever
\* No dispatcher is running: none can receive from q, and none is started
\* but by a Connect of the caller.
NoDispatcher == \A c \in Conns : sender[c].pc \in {"unborn", "done"}

\* A pass of refreshChannels waits in a send on q that nothing will ever
\* receive and nothing will close: the call of Join, Leave or LeaveAll never
\* returns.
PassHangs ==
    /\ caller.pc = "refreshChannels"
    /\ caller.joins \cup caller.leaves # {}
    /\ gen \notin closed.q
    /\ NoDispatcher

\* C25: every call of Join, Leave and LeaveAll returns: no pass is blocked
\* for ever in a send on q.
C25_PassReturns == ~PassHangs

\* -------------------------------------------------------- the cleared socket
\* Nothing but a receiver is at a use of cli.ws: no sender is at WriteJSON or
\* at the Close of its deferred function, the caller is not at Disconnect's
\* Close.
ReceiverAlone ==
    /\ \A d \in Conns : sender[d].pc \notin {"write", "defer"}
    /\ caller.pc # "close"

\* C26: the receiver does not use cli.ws once the shutdown has cleared it: no
\* receiver at the head of its loop, where it calls cli.ws.SetReadDeadline
\* and cli.ws.ReadJSON, dereferences a nil cli.ws.
C26_ReceiverSocket ==
    [][(/\ ws = 0
        /\ \E c \in Conns : receiver[c].pc = "loop"
        /\ ReceiverAlone) => panicked' # NilDereference]_vars

\* ------------------------------------------------------- the new connection
\* A reconciliation pass returns: refreshChannels leaves its last line.
PassReturns ==
    /\ caller.pc = "refreshChannels"
    /\ caller'.pc = "idle"
    /\ panicked' = "no"

\* C27: subscriptions are re-established on a new connection: when a pass
\* returns on an open connection, every desired channel has had its join
\* handed over since that connection was dialled; a channel joined on an
\* earlier connection does not count.
C27_Rejoined == [][(PassReturns /\ Open) => channels' \subseteq joinedOn']_vars

\* ------------------------------------------------- the tasks left behind
\* Connection c's heartbeat waits in its send on a q that is neither closed
\* nor read by any dispatcher, on a socket that is closed, while the caller
\* is back from Disconnect with cli.ws cleared.
HeartbeatStuck(c) ==
    /\ caller.pc = "idle"
    /\ ws = 0
    /\ socks[c] = "closed"
    /\ beat[c].pc = "send"
    /\ beat[c].gen \notin closed.q
    /\ NoDispatcher

\* C28: no background task outlives its connection: once Disconnect has
\* returned, no heartbeat of the closed connection is left waiting in a send
\* that nothing will ever take.
C28_TasksEnd == \A c \in Conns : c <= Len(socks) => ~HeartbeatStuck(c)
====
